---- MODULE Spec2Model ----
(***************************************************************************)
(* A model of src/bot.py, the embroidery file converter bot.                *)
(*                                                                         *)
(*   SpecEmb      read_emb, the fallback decoder, on byte buffers           *)
(*   SpecExport   export_all_formats on format registries                   *)
(*   SpecPreview  the segmentation pass of generate_preview                 *)
(*   Spec         handle_document / process_embroidery_file, step by step   *)
(*                                                                         *)
(* Strings are sequences of one-character strings, so that lower() and       *)
(* os.path.splitext are computed and not assumed. Bytes are 0..255.         *)
(***************************************************************************)
EXTENDS Integers, Sequences, FiniteSets, TLC

VARIABLES
    emb_src,        \* SpecEmb: what was encoded: magic, declared count, pairs, cut
    emb_buf,        \* SpecEmb: the bytes of the file handed to read_emb
    emb_result,     \* SpecEmb: whether read_emb was called, and what it returned
    exp_registry,   \* SpecExport: what supported_formats() yields
    exp_base,       \* SpecExport: base_filename
    exp_failing,    \* SpecExport: the extensions whose write raised
    exp_result,     \* SpecExport: whether export_all_formats was called, its result
    pv_stitches,    \* SpecPreview: pattern.stitches
    pv_result,      \* SpecPreview: whether the pass ran, and its segments
    pc,             \* Spec: the statement handle_document is at
    registry,       \* Spec: what supported_formats() yields
    message,        \* Spec: the document message being handled
    handled,        \* Spec: how many messages were handed to handle_document
    file_extension, \* Spec: line 204
    api_calls,      \* Spec: the calls of the chat transport made for this message
    downloaded,     \* Spec: whether download_file returned the file
    temp_file,      \* Spec: the NamedTemporaryFile of line 222 on disk
    user_name_bound,\* Spec: whether lines 233-237 bound user_name
    relay,          \* Spec: the outcome of each relay to the group
    process_called, \* Spec: whether process_embroidery_file was called
    temp_dir,       \* Spec: the TemporaryDirectory of line 155 on disk
    pattern,        \* Spec: line 157 / 162
    exported_files, \* Spec: line 166 / 170
    zip_buffer,     \* Spec: the archive process_embroidery_file returns
    exc,            \* Spec: the step whose exception is being handled
    escaped         \* Spec: whether an exception left handle_document

embVars == <<emb_src, emb_buf, emb_result>>
expVars == <<exp_registry, exp_base, exp_failing, exp_result>>
pvVars == <<pv_stitches, pv_result>>
hVars == <<pc, registry, message, handled, file_extension, api_calls, downloaded,
           temp_file, user_name_bound, relay, process_called, temp_dir, pattern,
           exported_files, zip_buffer, exc, escaped>>

vars == <<emb_src, emb_buf, emb_result,
          exp_registry, exp_base, exp_failing, exp_result,
          pv_stitches, pv_result,
          pc, registry, message, handled, file_extension, api_calls, downloaded,
          temp_file, user_name_bound, relay, process_called, temp_dir, pattern,
          exported_files, zip_buffer, exc, escaped>>

----------------------------------------------------------------------------
(* Bounds of the model.                                                    *)

\* The longest list of (x, y) pairs written after the count.
MaxPairs == 2

\* The largest small stitch count declared in a header (256 is drawn too).
MaxDeclared == 3

\* The longest format registry.
MaxRegistry == 3

\* The longest stitch list handed to the segmentation pass.
MaxStitches == 9

\* The number of documents handed to the handler, one after the other.
MaxRequests == 2

----------------------------------------------------------------------------
(* Generic helpers.                                                        *)

Min(a, b) == IF a < b THEN a ELSE b

Range(s) == {s[i] : i \in 1..Len(s)}

SeqsUpTo(S, n) == UNION {[1..k -> S] : k \in 0..n}

RECURSIVE Concat(_)
Concat(ss) == IF ss = <<>> THEN <<>> ELSE Head(ss) \o Concat(Tail(ss))

----------------------------------------------------------------------------
(* Patterns: pyembroidery.EmbPattern, reduced to its list of stitches.      *)
(* A stitch is the list [x, y, command] the library stores.                 *)

\* src/bot.py:58, 158, 183: None, where a pattern was expected.
None == [is_none |-> TRUE, stitches |-> <<>>]

\* src/bot.py:52: EmbPattern()
EmbPattern == [is_none |-> FALSE, stitches |-> <<>>]

\* pyembroidery's EmbPattern.add_stitch_absolute(self, cmd, x=0, y=0), which
\* appends [x, y, cmd] to pattern.stitches: the command comes first.
add_stitch_absolute(self, cmd, x, y) ==
    [self EXCEPT !.stitches = Append(@, <<x, y, cmd>>)]

----------------------------------------------------------------------------
(* read_emb: src/bot.py:39-58.                                              *)

\* f.read(n) at position pos: at most n bytes, fewer at the end of the file.
FileRead(buf, pos, n) == SubSeq(buf, pos + 1, Min(pos + n, Len(buf)))

\* struct.unpack('<I', b): four bytes, little-endian, unsigned.
UnpackU32(b) == b[1] + 256 * b[2] + 65536 * b[3] + 16777216 * b[4]

\* struct.unpack('<h', b): two bytes, little-endian, two's complement.
UnpackI16(b) ==
    LET u == b[1] + 256 * b[2]
    IN  IF u >= 32768 THEN u - 65536 ELSE u

\* b'EMB1'
EMB_MAGIC == <<69, 77, 66, 49>>

\* The loop of lines 48-51: [ok, stitches]; ok is FALSE where struct.unpack
\* raises struct.error because read() returned fewer than two bytes.
RECURSIVE ReadStitches(_, _, _, _)
ReadStitches(buf, pos, remaining, stitches) ==
    IF remaining = 0 THEN [ok |-> TRUE, stitches |-> stitches]
    ELSE LET xb == FileRead(buf, pos, 2)
             yb == FileRead(buf, pos + 2, 2)
         IN  IF Len(xb) < 2 \/ Len(yb) < 2
             THEN [ok |-> FALSE, stitches |-> stitches]
             ELSE ReadStitches(buf, pos + 4, remaining - 1,
                               Append(stitches, <<UnpackI16(xb), UnpackI16(yb)>>))

\* The loop of lines 53-54: pattern.add_stitch_absolute(x, y) binds x to the
\* parameter cmd, y to the parameter x, and leaves the parameter y at its
\* default 0.
RECURSIVE AddStitches(_, _)
AddStitches(emb, stitches) ==
    IF stitches = <<>> THEN emb
    ELSE LET x == Head(stitches)[1]
             y == Head(stitches)[2]
         IN  AddStitches(add_stitch_absolute(emb, x, y, 0), Tail(stitches))

\* A wrong read_emb: the except clause hands back the pairs read so far.
read_emb_partial(buf) ==
    LET header == FileRead(buf, 0, 4)
        count  == FileRead(buf, 4, 4)
    IN  IF header # EMB_MAGIC THEN None
        ELSE IF Len(count) < 4 THEN None
        ELSE AddStitches(EmbPattern,
                         ReadStitches(buf, 8, UnpackU32(count), <<>>).stitches)

read_emb(buf) ==
    LET header == FileRead(buf, 0, 4)
        count  == FileRead(buf, 4, 4)
    IN  IF header # EMB_MAGIC THEN None              \* ValueError, caught
        ELSE IF Len(count) < 4 THEN None            \* struct.error, caught
        ELSE LET r == ReadStitches(buf, 8, UnpackU32(count), <<>>)
             IN  IF ~r.ok THEN None                 \* struct.error, caught
                 ELSE AddStitches(EmbPattern, r.stitches)

----------------------------------------------------------------------------
(* Strings: sequences of one-character strings.                             *)

LowerTable ==
    ("A" :> "a") @@ ("B" :> "b") @@ ("C" :> "c") @@ ("D" :> "d") @@ ("E" :>
    "e") @@ ("F" :> "f") @@ ("G" :> "g") @@ ("H" :> "h") @@ ("I" :> "i") @@
    ("J" :> "j") @@ ("K" :> "k") @@ ("L" :> "l") @@ ("M" :> "m") @@ ("N" :>
    "n") @@ ("O" :> "o") @@ ("P" :> "p") @@ ("Q" :> "q") @@ ("R" :> "r") @@
    ("S" :> "s") @@ ("T" :> "t") @@ ("U" :> "u") @@ ("V" :> "v") @@ ("W" :>
    "w") @@ ("X" :> "x") @@ ("Y" :> "y") @@ ("Z" :> "z")

\* str.lower()
lower(s) == [i \in 1..Len(s) |->
                IF s[i] \in DOMAIN LowerTable THEN LowerTable[s[i]] ELSE s[i]]

\* The largest index of character c in s, 0 when there is none: s.rfind(c).
RFind(s, c) ==
    LET at == {i \in 1..Len(s) : s[i] = c}
    IN  IF at = {} THEN 0 ELSE CHOOSE i \in at : \A j \in at : j <= i

\* os.path.splitext(p): <<root, ext>>. The extension starts at the last dot
\* after the last separator, unless only dots precede it in the file name.
splitext(p) ==
    LET sepIndex == RFind(p, "/")
        dotIndex == RFind(p, ".")
    IN  IF /\ dotIndex > sepIndex
           /\ \E i \in (sepIndex + 1)..(dotIndex - 1) : p[i] # "."
        THEN <<SubSeq(p, 1, dotIndex - 1), SubSeq(p, dotIndex, Len(p))>>
        ELSE <<p, <<>>>>

\* os.path.join(a, b) for a relative b.
path_join(a, b) == a \o <<"/">> \o b

\* os.path.basename(p)
basename(p) == SubSeq(p, RFind(p, "/") + 1, Len(p))

----------------------------------------------------------------------------
(* export_all_formats: src/bot.py:60-93.                                    *)

\* src/bot.py:65
excluded_formats == {
    <<"c", "o", "l">>, <<"e", "d", "r">>, <<"g", "c", "o", "d", "e">>,
    <<"i", "n", "f">>, <<"p", "m", "v">>, <<"c", "s", "v">>,
    <<"j", "s", "o", "n">>, <<"t", "x", "t">>, <<"f", "x", "y">>,
    <<"n", "e", "w">>, <<"z", "x", "y">>, <<"t", "a", "p">>,
    <<"1", "0", "o">>, <<"b", "r", "o">>, <<"m", "a", "x">>,
    <<"d", "a", "t">>, <<"s", "t", "c">>, <<"i", "n", "b">>,
    <<"1", "0", "0">>, <<"s", "t", "x">>, <<"j", "p", "x">>,
    <<"m", "i", "t">>, <<"p", "c", "d">>, <<"g", "t">>, <<"s", "h", "v">>,
    <<"p", "c", "s">>, <<"d", "s", "b">>, <<"e", "m", "d">>,
    <<"p", "c", "q">>, <<"d", "s", "z">>, <<"e", "x", "y">>,
    <<"h", "u", "s">>, <<"p", "h", "c">>, <<"p", "c", "m">>,
    <<"s", "e", "w">>, <<"s", "p", "x">>, <<"z", "h", "s">>,
    <<"k", "s", "m">>, <<"p", "h", "b">> }

EMB == <<"e", "m", "b">>
CSV == <<"c", "s", "v">>
DST == <<"d", "s", "t">>
PES == <<"p", "e", "s">>

\* The name of the directory tempfile.TemporaryDirectory() makes.
OutputDir == <<"/", "t">>

\* Lines 68-77: the extensions collected from supported_formats(). An entry
\* is [kind, items]: a dict whose "extension" value is items[1] (no such key
\* when items is empty), a list or tuple of items, or anything else.
RECURSIVE CollectFormats(_)
CollectFormats(supported) ==
    IF supported = <<>> THEN <<>>
    ELSE LET entry == Head(supported)
             rest  == CollectFormats(Tail(supported))
         IN  IF entry.kind = "dict" /\ entry.items # <<>>
             THEN <<entry.items[1]>> \o rest
             ELSE IF entry.kind = "tuple" /\ Len(entry.items) > 0
             THEN <<entry.items[1]>> \o rest
             ELSE rest

\* A wrong line 79: the denylist is not subtracted.
FormatSetNoDenylist(supported) == Range(CollectFormats(supported))

\* Line 79: set(formats) - excluded_formats
FormatSet(supported) == Range(CollectFormats(supported)) \ excluded_formats

\* Line 79: list(...) of a set, in one of the orders the set may iterate in.
ListOrders(S) == {s \in [1..Cardinality(S) -> S] : Range(s) = S}

\* Lines 81-91 without the try: the first write that raises ends the call.
RECURSIVE ExportLoopNoTry(_, _, _, _, _)
ExportLoopNoTry(formats, output_dir, base_filename, failing, exported) ==
    IF formats = <<>> THEN [raised |-> FALSE, files |-> exported]
    ELSE LET ext == Head(formats)
             output_path == path_join(output_dir, base_filename \o <<".">> \o ext)
         IN  IF lower(ext) = EMB
             THEN ExportLoopNoTry(Tail(formats), output_dir, base_filename,
                                  failing, exported)
             ELSE IF ext \in failing
             THEN [raised |-> TRUE, files |-> <<>>]
             ELSE ExportLoopNoTry(Tail(formats), output_dir, base_filename,
                                  failing, Append(exported, output_path))

\* Lines 81-93: the loop over the formats; failing holds the extensions
\* whose write(pattern, output_path) raises.
RECURSIVE ExportLoop(_, _, _, _, _)
ExportLoop(formats, output_dir, base_filename, failing, exported) ==
    IF formats = <<>> THEN [raised |-> FALSE, files |-> exported]
    ELSE LET ext == Head(formats)
             output_path == path_join(output_dir, base_filename \o <<".">> \o ext)
         IN  IF lower(ext) = EMB                     \* continue
             THEN ExportLoop(Tail(formats), output_dir, base_filename,
                             failing, exported)
             ELSE IF ext \in failing                 \* logged, skipped
             THEN ExportLoop(Tail(formats), output_dir, base_filename,
                             failing, exported)
             ELSE ExportLoop(Tail(formats), output_dir, base_filename,
                             failing, Append(exported, output_path))

\* A wrong export_all_formats: a raising write is not caught.
export_all_formats_no_try(formats, output_dir, base_filename, failing) ==
    ExportLoopNoTry(formats, output_dir, base_filename, failing, <<>>)

\* export_all_formats(pattern, output_dir, base_filename), given the list of
\* line 79 and the extensions whose write raises: [raised, files].
export_all_formats(formats, output_dir, base_filename, failing) ==
    ExportLoop(formats, output_dir, base_filename, failing, <<>>)

----------------------------------------------------------------------------
(* generate_preview, the segmentation pass: src/bot.py:99-124.              *)

\* src/bot.py:19: the value that stands when the import of line 16 fails, as
\* it does where pyembroidery exports no name STITCH_COLOR_CHANGE.
STITCH_COLOR_CHANGE == 3

\* src/bot.py:103
colors == <<"blue", "green", "red", "orange", "purple", "brown", "cyan">>

\* Lines 109-110: command = stitch[2] if len(stitch) >= 3 else None, and
\* command == STITCH_COLOR_CHANGE.
IsColorChange(stitch) == Len(stitch) >= 3 /\ stitch[3] = STITCH_COLOR_CHANGE

\* A wrong close: the segment is appended even when it is empty.
CloseSegmentAlways(segments, current_segment, current_color) ==
    Append(segments, [points |-> current_segment, color |-> current_color])

\* Lines 111-112 and 123-124: if current_segment: segments.append(...)
CloseSegment(segments, current_segment, current_color) ==
    IF current_segment # <<>>
    THEN Append(segments, [points |-> current_segment, color |-> current_color])
    ELSE segments

\* Lines 108-124; color_index counts from 0 as in the code.
RECURSIVE SegmentLoop(_, _, _, _)
SegmentLoop(stitches, segments, current_segment, color_index) ==
    LET current_color == colors[color_index + 1]
    IN  IF stitches = <<>>
        THEN CloseSegment(segments, current_segment, current_color)
        ELSE LET stitch == Head(stitches)
             IN  IF IsColorChange(stitch)
                 THEN SegmentLoop(Tail(stitches),
                                  CloseSegment(segments, current_segment, current_color),
                                  <<>>,
                                  (color_index + 1) % Len(colors))
                 ELSE SegmentLoop(Tail(stitches), segments,
                                  Append(current_segment, <<stitch[1], -stitch[2]>>),
                                  color_index)

\* Lines 100-124: the segments generate_preview draws for pattern.stitches.
preview_segments(stitches) == SegmentLoop(stitches, <<>>, <<>>, 0)

----------------------------------------------------------------------------
(* handle_document and process_embroidery_file: src/bot.py:149-183, 194-287. *)
(* One action per step; a call of the chat transport, of the file system or  *)
(* of the codec library either returns or raises.                            *)

\* src/bot.py:208
supported_extensions == { <<".", "j", "e", "f">>, <<".", "p", "e", "s">>,
                          <<".", "d", "s", "t">>, <<".", "e", "x", "p">>,
                          <<".", "e", "m", "b">>, <<".", "v", "p", "3">>,
                          <<".", "x", "x", "x">> }

\* A call of the chat transport, as recorded: what was sent, whether the call
\* returned (ok) or raised, and for the error reply the step that had raised.
ApiCall(what, ok, detail) == [what |-> what, ok |-> ok, detail |-> detail]

Called(what) == \E i \in 1..Len(api_calls) : api_calls[i].what = what

Delivered(what) ==
    \E i \in 1..Len(api_calls) : api_calls[i].what = what /\ api_calls[i].ok

NoTempDir == [exists |-> FALSE, files |-> {}]

NoZip == [made |-> FALSE, names |-> <<>>]

\* The locals of handle_document before its first statement.
HandlerLocals ==
    /\ file_extension = <<>>
    /\ api_calls = <<>>
    /\ downloaded = FALSE
    /\ temp_file = [exists |-> FALSE, saved |-> FALSE]
    /\ user_name_bound = FALSE
    /\ relay = [original |-> "none", zip |-> "none"]
    /\ process_called = FALSE
    /\ temp_dir = NoTempDir
    /\ pattern = None
    /\ exported_files = <<>>
    /\ zip_buffer = NoZip
    /\ exc = "none"
    /\ escaped = FALSE

\* Lines 197-287, an exception reaching the top-level try: to the except
\* clause of line 285.
Raise(step) == /\ exc' = step
               /\ pc' = "except"

\* Lines 247-283, an exception inside the inner try: the finally clause of
\* line 280 runs first.
RaiseInsideTry(step) == /\ exc' = step
                        /\ pc' = "finally"

\* Lines 155-183, an exception inside the with block of process_embroidery_file:
\* TemporaryDirectory.__exit__ runs first.
RaiseInsideWith(step) == /\ exc' = step
                         /\ pc' = "proc_exit"

\* Line 199: bot.reply_to(message, "Processing your embroidery file...")
ReplyProcessing ==
    /\ pc = "reply_processing"
    /\ \E ok \in BOOLEAN :
          /\ api_calls' = Append(api_calls, ApiCall("processing", ok, "none"))
          /\ IF ok THEN pc' = "get_file" /\ UNCHANGED exc
                   ELSE Raise("reply_processing")
    /\ UNCHANGED <<message, registry, handled, file_extension, downloaded, temp_file,
                   user_name_bound, relay, process_called, temp_dir, pattern,
                   exported_files, zip_buffer, escaped>>
    /\ UNCHANGED <<embVars, expVars, pvVars>>

\* Lines 202-204: bot.get_file, then the lowered extension of the file name.
GetFile ==
    /\ pc = "get_file"
    /\ \E ok \in BOOLEAN :
          IF ok
          THEN /\ file_extension' = lower(splitext(message.file_name)[2])
               /\ pc' = "check_extension"
               /\ UNCHANGED exc
          ELSE /\ Raise("get_file")
               /\ UNCHANGED file_extension
    /\ UNCHANGED <<message, registry, handled, api_calls, downloaded, temp_file,
                   user_name_bound, relay, process_called, temp_dir, pattern,
                   exported_files, zip_buffer, escaped>>
    /\ UNCHANGED <<embVars, expVars, pvVars>>

\* Lines 208-216: the allow-list check; the rejection edits the notice and
\* returns.
CheckExtension ==
    /\ pc = "check_extension"
    /\ IF file_extension \notin supported_extensions
       THEN \E ok \in BOOLEAN :
               /\ api_calls' = Append(api_calls, ApiCall("rejection", ok, "none"))
               /\ IF ok THEN pc' = "done" /\ UNCHANGED exc
                        ELSE Raise("edit_rejection")
       ELSE /\ pc' = "download"
            /\ UNCHANGED <<api_calls, exc>>
    /\ UNCHANGED <<message, registry, handled, file_extension, downloaded, temp_file,
                   user_name_bound, relay, process_called, temp_dir, pattern,
                   exported_files, zip_buffer, escaped>>
    /\ UNCHANGED <<embVars, expVars, pvVars>>

\* Line 219: bot.download_file
Download ==
    /\ pc = "download"
    /\ \E ok \in BOOLEAN :
          IF ok
          THEN /\ downloaded' = TRUE
               /\ pc' = "save_upload"
               /\ UNCHANGED exc
          ELSE /\ Raise("download")
               /\ UNCHANGED downloaded
    /\ UNCHANGED <<message, registry, handled, file_extension, api_calls, temp_file,
                   user_name_bound, relay, process_called, temp_dir, pattern,
                   exported_files, zip_buffer, escaped>>
    /\ UNCHANGED <<embVars, expVars, pvVars>>

\* Lines 222-224: NamedTemporaryFile(delete=False) and write. The file is
\* created, or creating it raises; once created it stays when write raises.
SaveUpload ==
    /\ pc = "save_upload"
    /\ \E outcome \in {"create_raises", "write_raises", "saved"} :
          CASE outcome = "create_raises" ->
                  /\ Raise("save_upload")
                  /\ UNCHANGED temp_file
            [] outcome = "write_raises" ->
                  /\ Raise("save_upload")
                  /\ temp_file' = [exists |-> TRUE, saved |-> FALSE]
            [] outcome = "saved" ->
                  /\ temp_file' = [exists |-> TRUE, saved |-> TRUE]
                  /\ pc' = "relay_original"
                  /\ UNCHANGED exc
    /\ UNCHANGED <<message, registry, handled, file_extension, api_calls, downloaded,
                   user_name_bound, relay, process_called, temp_dir, pattern,
                   exported_files, zip_buffer, escaped>>
    /\ UNCHANGED <<embVars, expVars, pvVars>>

\* A wrong relay: lines 229-243 without the try of line 227.
RelayOriginalNoTry ==
    /\ pc = "relay_original"
    /\ \E ok \in BOOLEAN :
          /\ api_calls' = Append(api_calls, ApiCall("group_original", ok, "none"))
          /\ user_name_bound' = TRUE
          /\ relay' = [relay EXCEPT !.original = IF ok THEN "sent" ELSE "failed"]
          /\ IF ok THEN pc' = "proc_mkdtemp" /\ UNCHANGED exc
                   ELSE Raise("relay_original")
    /\ UNCHANGED <<message, registry, handled, file_extension, downloaded, temp_file,
                   process_called, temp_dir, pattern, exported_files, zip_buffer,
                   escaped>>
    /\ UNCHANGED <<embVars, expVars, pvVars>>

\* Lines 227-245: the original file is sent to the group; whatever raises in
\* the try is logged. message.from_user is None for a message without a
\* sender, and then line 233 raises before user_name is bound.
RelayOriginal ==
    /\ pc = "relay_original"
    /\ IF message.from_user
       THEN \E ok \in BOOLEAN :
               /\ api_calls' = Append(api_calls, ApiCall("group_original", ok, "none"))
               /\ user_name_bound' = TRUE
               /\ relay' = [relay EXCEPT !.original = IF ok THEN "sent" ELSE "failed"]
       ELSE /\ relay' = [relay EXCEPT !.original = "failed"]
            /\ UNCHANGED <<api_calls, user_name_bound>>
    /\ pc' = "proc_mkdtemp"
    /\ UNCHANGED <<message, registry, handled, file_extension, downloaded, temp_file,
                   process_called, temp_dir, pattern, exported_files, zip_buffer,
                   exc, escaped>>
    /\ UNCHANGED <<embVars, expVars, pvVars>>

\* Line 152: base_filename = os.path.splitext(original_filename)[0]
base_filename == splitext(message.file_name)[1]

\* Line 155: process_embroidery_file is entered and creates its
\* TemporaryDirectory.
ProcMkdtemp ==
    /\ pc = "proc_mkdtemp"
    /\ process_called' = TRUE
    /\ \E ok \in BOOLEAN :
          IF ok
          THEN /\ temp_dir' = [exists |-> TRUE, files |-> {}]
               /\ pc' = "proc_read"
               /\ UNCHANGED exc
          ELSE /\ RaiseInsideTry("mkdtemp")
               /\ UNCHANGED temp_dir
    /\ UNCHANGED <<message, registry, handled, file_extension, api_calls, downloaded,
                   temp_file, user_name_bound, relay, pattern, exported_files,
                   zip_buffer, escaped>>
    /\ UNCHANGED <<embVars, expVars, pvVars>>

\* What pyembroidery.read may return for a file it can decode.
PrimaryPatterns ==
    { EmbPattern,
      [is_none |-> FALSE,
       stitches |-> << <<1, 2, 0>>, <<0, 0, STITCH_COLOR_CHANGE>>, <<4, -5, 0>> >>] }

\* Lines 156-162: pyembroidery.read; when it raises or returns None, read_emb.
ProcRead ==
    /\ pc = "proc_read"
    /\ \/ \E p \in PrimaryPatterns : pattern' = p
       \/ pattern' = read_emb(message.content)
    /\ pc' = "proc_branch"
    /\ UNCHANGED <<message, registry, handled, file_extension, api_calls, downloaded,
                   temp_file, user_name_bound, relay, process_called, temp_dir,
                   exported_files, zip_buffer, exc, escaped>>
    /\ UNCHANGED <<embVars, expVars, pvVars>>

\* bool(pattern) at line 164: None is false; a pattern with stitches is true;
\* a pattern without stitches is false where EmbPattern defines __len__ and
\* true where it does not.
Truthiness(p) ==
    IF p.is_none THEN {FALSE}
    ELSE IF p.stitches = <<>> THEN BOOLEAN
    ELSE {TRUE}

\* Lines 164 and 181-183: if pattern, else return None, None.
ProcBranch ==
    /\ pc = "proc_branch"
    /\ \E truthy \in Truthiness(pattern) :
          pc' = IF truthy THEN "proc_export" ELSE "proc_exit"
    /\ UNCHANGED <<message, registry, handled, file_extension, api_calls, downloaded,
                   temp_file, user_name_bound, relay, process_called, temp_dir,
                   pattern, exported_files, zip_buffer, exc, escaped>>
    /\ UNCHANGED <<embVars, expVars, pvVars>>

\* Line 166: export_all_formats(pattern, temp_dir, base_filename); each write
\* that returns leaves its file in the directory.
ProcExport ==
    /\ pc = "proc_export"
    /\ \E formats \in ListOrders(FormatSet(registry)) :
       \E failing \in SUBSET {e \in Range(formats) : lower(e) # EMB} :
          LET r == export_all_formats(formats, OutputDir, base_filename, failing)
          IN  /\ exported_files' = r.files
              /\ temp_dir' = [temp_dir EXCEPT !.files = @ \cup Range(r.files)]
              /\ IF r.raised THEN RaiseInsideWith("export")
                             ELSE pc' = "proc_preview" /\ UNCHANGED exc
    /\ UNCHANGED <<message, registry, handled, file_extension, api_calls, downloaded,
                   temp_file, user_name_bound, relay, process_called, pattern,
                   zip_buffer, escaped>>
    /\ UNCHANGED <<embVars, expVars, pvVars>>

PREVIEW_SUFFIX == <<"_", "p", "r", "e", "v", "i", "e", "w", ".", "p", "n", "g">>

\* Lines 169-170 (and 97, 126-147): generate_preview saves the image, or
\* raises; its path is appended to exported_files.
ProcPreview ==
    /\ pc = "proc_preview"
    /\ \E ok \in BOOLEAN :
          IF ok
          THEN LET preview_path == path_join(OutputDir, base_filename \o PREVIEW_SUFFIX)
               IN  /\ temp_dir' = [temp_dir EXCEPT !.files = @ \cup {preview_path}]
                   /\ exported_files' = Append(exported_files, preview_path)
                   /\ pc' = "proc_zip"
                   /\ UNCHANGED exc
          ELSE /\ RaiseInsideWith("preview")
               /\ UNCHANGED <<temp_dir, exported_files>>
    /\ UNCHANGED <<message, registry, handled, file_extension, api_calls, downloaded,
                   temp_file, user_name_bound, relay, process_called, pattern,
                   zip_buffer, escaped>>
    /\ UNCHANGED <<embVars, expVars, pvVars>>

\* Lines 173-180: every exported file is written into the archive under its
\* base name; zip_file.write raises for a file that is not there, and may
\* raise for one that is.
ProcZip ==
    /\ pc = "proc_zip"
    /\ \E ok \in (IF Range(exported_files) \subseteq temp_dir.files
                  THEN BOOLEAN ELSE {FALSE}) :
          IF ok
          THEN /\ zip_buffer' = [made |-> TRUE,
                                 names |-> [i \in 1..Len(exported_files) |->
                                               basename(exported_files[i])]]
               /\ pc' = "proc_exit"
               /\ UNCHANGED exc
          ELSE /\ RaiseInsideWith("zip")
               /\ UNCHANGED zip_buffer
    /\ UNCHANGED <<message, registry, handled, file_extension, api_calls, downloaded,
                   temp_file, user_name_bound, relay, process_called, temp_dir,
                   pattern, exported_files, escaped>>
    /\ UNCHANGED <<embVars, expVars, pvVars>>

\* Line 155, the end of the with block on return and on an exception:
\* TemporaryDirectory.__exit__ removes the directory and what is in it. Then
\* line 251: if zip_buffer.
ProcExit ==
    /\ pc = "proc_exit"
    /\ temp_dir' = NoTempDir
    /\ pc' = IF exc # "none" THEN "finally"
             ELSE IF zip_buffer.made THEN "send_archive"
             ELSE "edit_could_not_process"
    /\ UNCHANGED <<message, registry, handled, file_extension, api_calls, downloaded,
                   temp_file, user_name_bound, relay, process_called, pattern,
                   exported_files, zip_buffer, exc, escaped>>
    /\ UNCHANGED <<embVars, expVars, pvVars>>

\* Lines 253-258: the archive is sent to the user.
SendArchive ==
    /\ pc = "send_archive"
    /\ \E ok \in BOOLEAN :
          /\ api_calls' = Append(api_calls, ApiCall("archive", ok, "none"))
          /\ IF ok THEN pc' = "delete_notice" /\ UNCHANGED exc
                   ELSE RaiseInsideTry("send_archive")
    /\ UNCHANGED <<message, registry, handled, file_extension, downloaded, temp_file,
                   user_name_bound, relay, process_called, temp_dir, pattern,
                   exported_files, zip_buffer, escaped>>
    /\ UNCHANGED <<embVars, expVars, pvVars>>

\* Line 259: the processing notice is deleted.
DeleteNotice ==
    /\ pc = "delete_notice"
    /\ \E ok \in BOOLEAN :
          /\ api_calls' = Append(api_calls, ApiCall("delete_notice", ok, "none"))
          /\ IF ok THEN pc' = "relay_zip" /\ UNCHANGED exc
                   ELSE RaiseInsideTry("delete_notice")
    /\ UNCHANGED <<message, registry, handled, file_extension, downloaded, temp_file,
                   user_name_bound, relay, process_called, temp_dir, pattern,
                   exported_files, zip_buffer, escaped>>
    /\ UNCHANGED <<embVars, expVars, pvVars>>

\* Lines 262-273: the archive is sent to the group; whatever raises in the
\* try is logged. The caption reads user_name, a NameError when line 233
\* never bound it.
RelayZip ==
    /\ pc = "relay_zip"
    /\ IF user_name_bound
       THEN \E ok \in BOOLEAN :
               /\ api_calls' = Append(api_calls, ApiCall("group_zip", ok, "none"))
               /\ relay' = [relay EXCEPT !.zip = IF ok THEN "sent" ELSE "failed"]
       ELSE /\ relay' = [relay EXCEPT !.zip = "failed"]
            /\ UNCHANGED api_calls
    /\ pc' = "finally"
    /\ UNCHANGED <<message, registry, handled, file_extension, downloaded, temp_file,
                   user_name_bound, process_called, temp_dir, pattern,
                   exported_files, zip_buffer, exc, escaped>>
    /\ UNCHANGED <<embVars, expVars, pvVars>>

\* Lines 275-279: the notice is edited to the could-not-process text.
EditCouldNotProcess ==
    /\ pc = "edit_could_not_process"
    /\ \E ok \in BOOLEAN :
          /\ api_calls' = Append(api_calls, ApiCall("could_not_process", ok, "none"))
          /\ IF ok THEN pc' = "finally" /\ UNCHANGED exc
                   ELSE RaiseInsideTry("edit_could_not_process")
    /\ UNCHANGED <<message, registry, handled, file_extension, downloaded, temp_file,
                   user_name_bound, relay, process_called, temp_dir, pattern,
                   exported_files, zip_buffer, escaped>>
    /\ UNCHANGED <<embVars, expVars, pvVars>>

\* A wrong cleanup: the unlink follows the try block instead of standing in
\* a finally clause, so that an exception skips it.
FinallyOnlyOnSuccess ==
    /\ pc = "finally"
    /\ temp_file' = IF exc = "none" THEN [temp_file EXCEPT !.exists = FALSE]
                                    ELSE temp_file
    /\ pc' = IF exc # "none" THEN "except" ELSE "done"
    /\ UNCHANGED <<message, registry, handled, file_extension, api_calls, downloaded,
                   user_name_bound, relay, process_called, temp_dir, pattern,
                   exported_files, zip_buffer, exc, escaped>>
    /\ UNCHANGED <<embVars, expVars, pvVars>>

\* Lines 280-283: the saved upload is removed, also while an exception
\* is on its way to line 285.
Finally ==
    /\ pc = "finally"
    /\ temp_file' = [temp_file EXCEPT !.exists = FALSE]
    /\ pc' = IF exc # "none" THEN "except" ELSE "done"
    /\ UNCHANGED <<message, registry, handled, file_extension, api_calls, downloaded,
                   user_name_bound, relay, process_called, temp_dir, pattern,
                   exported_files, zip_buffer, exc, escaped>>
    /\ UNCHANGED <<embVars, expVars, pvVars>>

\* Lines 285-287: the error reply, naming the failure. The reply is a call of
\* the transport like the others; when it raises, nothing catches it and the
\* exception leaves handle_document.
Except ==
    /\ pc = "except"
    /\ \E ok \in BOOLEAN :
          /\ api_calls' = Append(api_calls, ApiCall("error", ok, exc))
          /\ escaped' = ~ok
    /\ pc' = "done"
    /\ UNCHANGED <<message, registry, handled, file_extension, downloaded, temp_file,
                   user_name_bound, relay, process_called, temp_dir, pattern,
                   exported_files, zip_buffer, exc>>
    /\ UNCHANGED <<embVars, expVars, pvVars>>

----------------------------------------------------------------------------
(* The values of a specification's variables while another one runs.        *)

EmbIdle ==
    /\ emb_src = [magic |-> <<>>, declared |-> 0, pairs |-> <<>>, cut |-> 0]
    /\ emb_buf = <<>>
    /\ emb_result = [called |-> FALSE, pattern |-> None]

ExportIdle ==
    /\ exp_registry = <<>>
    /\ exp_base = <<>>
    /\ exp_failing = {}
    /\ exp_result = [called |-> FALSE, raised |-> FALSE, files |-> <<>>]

PreviewIdle ==
    /\ pv_stitches = <<>>
    /\ pv_result = [called |-> FALSE, segments |-> <<>>]

HandlerIdle ==
    /\ pc = "idle"
    /\ registry = <<>>
    /\ message = [file_name |-> <<>>, content |-> <<>>, from_user |-> FALSE]
    /\ handled = 0
    /\ HandlerLocals

----------------------------------------------------------------------------
(* SpecEmb: read_emb applied to well-formed, corrupted and cut buffers.     *)

PackU32(n) == << n % 256, (n \div 256) % 256, (n \div 65536) % 256,
                 (n \div 16777216) % 256 >>

PackI16(v) == LET u == v % 65536 IN << u % 256, u \div 256 >>

Coords == {-32768, -2, 1, 300}

Magics == {EMB_MAGIC, <<69, 77, 66, 50>>}

DeclaredCounts == (0..MaxDeclared) \cup {256}

PackPairs(pairs) == Concat([i \in 1..Len(pairs) |->
                               PackI16(pairs[i][1]) \o PackI16(pairs[i][2])])

EncodeEmb(magic, declared, pairs) == magic \o PackU32(declared) \o PackPairs(pairs)

EmbSources ==
    { t \in [magic : Magics, declared : DeclaredCounts,
             pairs : SeqsUpTo(Coords \X Coords, MaxPairs),
             cut : 0..(8 + 4 * MaxPairs)] :
        t.cut <= 8 + 4 * Len(t.pairs) }

InitEmb ==
    /\ HandlerIdle
    /\ ExportIdle
    /\ PreviewIdle
    /\ emb_src \in EmbSources
    /\ emb_buf = SubSeq(EncodeEmb(emb_src.magic, emb_src.declared, emb_src.pairs),
                        1, emb_src.cut)
    /\ emb_result = [called |-> FALSE, pattern |-> None]

ReadEmb ==
    /\ ~emb_result.called
    /\ emb_result' = [called |-> TRUE, pattern |-> read_emb(emb_buf)]
    /\ UNCHANGED <<emb_src, emb_buf>>
    /\ UNCHANGED <<expVars, pvVars, hVars>>

NextEmb == ReadEmb

SpecEmb == InitEmb /\ [][NextEmb]_vars

\* The buffer holds the magic, the whole count and every declared pair.
EmbWellFormed ==
    /\ emb_src.magic = EMB_MAGIC
    /\ emb_src.declared <= Len(emb_src.pairs)
    /\ emb_src.cut = 8 + 4 * Len(emb_src.pairs)

\* The buffer has a wrong magic, or ends before the magic, the count or the
\* declared pairs are complete.
EmbMalformed ==
    \/ emb_src.magic # EMB_MAGIC
    \/ emb_src.cut < 8
    \/ emb_src.cut < 8 + 4 * emb_src.declared

\* C8: read_emb on a buffer with a wrong magic, or cut before the count or
\* before all declared pairs are complete (also in the middle of a pair),
\* returns None, never a pattern of the pairs read so far.
C8_MalformedReturnsNone ==
    (emb_result.called /\ EmbMalformed) => emb_result.pattern = None

\* read_emb has returned None for a right magic and count, after one whole
\* pair was there to read and the next pair was cut in its middle.
C8_Witness ==
    /\ emb_result.called
    /\ emb_src.magic = EMB_MAGIC
    /\ emb_src.declared = 2
    /\ emb_src.cut = 8 + 4 + 2
    /\ emb_result.pattern = None

\* C9: read_emb on a well-formed buffer declaring N returns a pattern of
\* exactly N stitches, the i-th at the i-th encoded (x, y), in file order,
\* with no command: the library's plain stitch, command 0.
C9_WellFormedDecodesPairs ==
    (emb_result.called /\ EmbWellFormed) =>
        /\ ~emb_result.pattern.is_none
        /\ Len(emb_result.pattern.stitches) = emb_src.declared
        /\ \A i \in 1..emb_src.declared :
              emb_result.pattern.stitches[i] =
                  <<emb_src.pairs[i][1], emb_src.pairs[i][2], 0>>

\* What holds of the count alone: a well-formed buffer yields N stitches.
EmbStitchCountIsDeclared ==
    (emb_result.called /\ EmbWellFormed) =>
        /\ ~emb_result.pattern.is_none
        /\ Len(emb_result.pattern.stitches) = emb_src.declared

----------------------------------------------------------------------------
(* SpecExport: export_all_formats applied to registries.                    *)


\* Extensions a registry entry may hold: in and out of the denylist, and in
\* lower, upper and mixed case.
RegistryExts == {EMB, <<"E", "M", "B">>, CSV, <<"C", "S", "V">>, DST, PES}

RegistryEntries ==
    [kind : {"dict"}, items : {<<e>> : e \in RegistryExts}]
        \cup { [kind |-> "tuple", items |-> <<DST, <<"D">>>>],
               [kind |-> "tuple", items |-> <<<<"E", "m", "b">>>>],
               [kind |-> "tuple", items |-> <<>>],
               [kind |-> "dict", items |-> <<>>],
               [kind |-> "other", items |-> <<>>] }

BaseFilenames == { <<"a">>, <<"a", ".", "b">> }

InitExport ==
    /\ HandlerIdle
    /\ EmbIdle
    /\ PreviewIdle
    /\ exp_registry \in SeqsUpTo(RegistryEntries, MaxRegistry)
    /\ exp_base \in BaseFilenames
    /\ exp_failing = {}
    /\ exp_result = [called |-> FALSE, raised |-> FALSE, files |-> <<>>]

ExportAllFormats ==
    /\ ~exp_result.called
    /\ \E formats \in ListOrders(FormatSet(exp_registry)) :
       \E failing \in SUBSET {e \in Range(formats) : lower(e) # EMB} :
          LET r == export_all_formats(formats, OutputDir, exp_base, failing)
          IN  /\ exp_failing' = failing
              /\ exp_result' = [called |-> TRUE, raised |-> r.raised,
                                files |-> r.files]
    /\ UNCHANGED <<exp_registry, exp_base>>
    /\ UNCHANGED <<embVars, pvVars, hVars>>

NextExport == ExportAllFormats

SpecExport == InitExport /\ [][NextExport]_vars

\* The extension of a path, without its dot.
FileExt(path) == Tail(splitext(path)[2])

\* The extensions the registry offers, read off its entries.
RegistryOffers ==
    { e.items[1] : e \in {x \in Range(exp_registry) :
                             x.kind \in {"dict", "tuple"} /\ x.items # <<>>} }

\* The candidate formats: offered, not denylisted, not "emb" in any case.
Candidates ==
    { e \in RegistryOffers : e \notin excluded_formats /\ lower(e) # EMB }

\* C5: export_all_formats does not raise, and returns exactly one path for
\* each candidate format whose write did not raise and no path for a format
\* whose write raised.
C5_EncoderFailureIsolated ==
    exp_result.called =>
        /\ ~exp_result.raised
        /\ \A c \in Candidates :
              Cardinality({i \in 1..Len(exp_result.files) :
                              FileExt(exp_result.files[i]) = c})
                  = IF c \in exp_failing THEN 0 ELSE 1
        /\ \A i \in 1..Len(exp_result.files) :
              FileExt(exp_result.files[i]) \in Candidates

\* export_all_formats has returned after the write of one format raised and
\* the write of another did not.
C5_Witness ==
    /\ exp_result.called
    /\ exp_failing # {}
    /\ Candidates \ exp_failing # {}
    /\ Len(exp_result.files) >= 1

\* C6: no returned file has the extension "emb" or an extension that is a
\* member of the denylist, whatever the registry holds.
C6_NoEmbNoDenylisted ==
    exp_result.called =>
        \A i \in 1..Len(exp_result.files) :
           /\ FileExt(exp_result.files[i]) # EMB
           /\ FileExt(exp_result.files[i]) \notin excluded_formats

\* export_all_formats has returned files for a registry that offers "emb"
\* and the denylisted "csv".
C6_Witness ==
    /\ exp_result.called
    /\ EMB \in RegistryOffers
    /\ CSV \in RegistryOffers
    /\ Len(exp_result.files) >= 1

----------------------------------------------------------------------------
(* SpecPreview: the segmentation pass applied to stitch lists.              *)

\* A stitch without a command, a jump at negative coordinates, and a color
\* change.
PreviewStitches == { <<1, 2>>, <<-3, -4, 1>>, <<0, 0, STITCH_COLOR_CHANGE>> }

InitPreview ==
    /\ HandlerIdle
    /\ EmbIdle
    /\ ExportIdle
    /\ pv_stitches \in SeqsUpTo(PreviewStitches, MaxStitches)
    /\ pv_result = [called |-> FALSE, segments |-> <<>>]

GeneratePreview ==
    /\ ~pv_result.called
    /\ pv_result' = [called |-> TRUE, segments |-> preview_segments(pv_stitches)]
    /\ UNCHANGED pv_stitches
    /\ UNCHANGED <<embVars, expVars, hVars>>

NextPreview == GeneratePreview

SpecPreview == InitPreview /\ [][NextPreview]_vars

\* The places of the color-change events in the stitch list.
ChangeAt == {i \in 1..Len(pv_stitches) :
                Len(pv_stitches[i]) >= 3 /\ pv_stitches[i][3] = 3}

\* The r-th run, r = 0..k: the places after the r-th color change and before
\* the next one.
RunPlaces(r) ==
    LET before(i) == Cardinality({c \in ChangeAt : c < i})
    IN  {i \in 1..Len(pv_stitches) : i \notin ChangeAt /\ before(i) = r}

\* The places of a run in increasing order.
RECURSIVE Ascending(_)
Ascending(S) ==
    IF S = {} THEN <<>>
    ELSE LET m == CHOOSE x \in S : \A y \in S : x <= y
         IN  <<m>> \o Ascending(S \ {m})

\* The points of the r-th run, y negated, and its palette color.
RunSegment(r) ==
    LET at == Ascending(RunPlaces(r))
    IN  [points |-> [j \in 1..Len(at) |->
                        <<pv_stitches[at[j]][1], 0 - pv_stitches[at[j]][2]>>],
         color  |-> colors[(r % 7) + 1]]

\* The runs that hold a stitch, in order.
RECURSIVE RunsFrom(_)
RunsFrom(r) ==
    IF r > Cardinality(ChangeAt) THEN <<>>
    ELSE IF RunPlaces(r) = {} THEN RunsFrom(r + 1)
    ELSE <<RunSegment(r)>> \o RunsFrom(r + 1)

\* Every run between color changes, before the first and after the last
\* holds a stitch.
AllRunsNonEmpty == \A r \in 0..Cardinality(ChangeAt) : RunPlaces(r) # {}

\* What the claim says of every stitch list but the one with no color change:
\* the segments are the non-empty runs in order, k + 1 of them when no run is
\* empty, none empty, each in the palette color of its run, wrapping.
SegmentsAreRuns ==
    /\ pv_result.segments = RunsFrom(0)
    /\ AllRunsNonEmpty => Len(pv_result.segments) = Cardinality(ChangeAt) + 1
    /\ Len(pv_result.segments) <= Cardinality(ChangeAt) + 1
    /\ \A j \in 1..Len(pv_result.segments) : pv_result.segments[j].points # <<>>

\* One segment holding all points, y negated, in order.
OneSegmentOfAll ==
    /\ Len(pv_result.segments) = 1
    /\ pv_result.segments[1].points =
           [i \in 1..Len(pv_stitches) |-> <<pv_stitches[i][1], 0 - pv_stitches[i][2]>>]
    /\ pv_result.segments[1].color = "blue"

\* C10 as stated: with zero color-change events exactly one segment holds
\* all points with y negated; with k of them the segments are the non-empty
\* runs, k + 1 when none is empty, colored from the palette in order,
\* wrapping; no empty segment is emitted.
C10_AsStated ==
    pv_result.called =>
        /\ SegmentsAreRuns
        /\ ChangeAt = {} => OneSegmentOfAll

\* C10 amended: the single segment is produced for zero color-change events
\* and at least one stitch; a pattern with no stitch yields no segment.
C10_Segmentation ==
    pv_result.called =>
        /\ SegmentsAreRuns
        /\ (ChangeAt = {} /\ pv_stitches # <<>>) => OneSegmentOfAll
        /\ pv_stitches = <<>> => pv_result.segments = <<>>

\* The pass has run on a list with seven color changes: the segment after
\* the seventh is drawn in the first palette color again.
C10_Witness ==
    /\ pv_result.called
    /\ Cardinality(ChangeAt) = 7
    /\ Len(pv_result.segments) = 2
    /\ pv_result.segments[2].color = "blue"
    /\ RunPlaces(7) # {}

----------------------------------------------------------------------------
(* Spec: the bot serving documents, one after the other.                    *)

DictEntry(ext) == [kind |-> "dict", items |-> <<ext>>]

\* What supported_formats() may yield: formats the bot accepts as uploads,
\* a denylisted format and "emb", in dicts and in a tuple.
Registries ==
    { << DictEntry(DST), DictEntry(PES), DictEntry(CSV), DictEntry(EMB) >>,
      << DictEntry(PES), [kind |-> "tuple", items |-> <<<<"E", "M", "B">>>>] >> }

\* File names of uploads: allowed extensions in lower, upper and mixed
\* case, one not allowed, none at all, and a name that is only an extension.
FileNames ==
    { <<"a", ".", "d", "s", "t">>, <<"a", ".", "D", "S", "T">>,
      <<"a", ".", "p", "d", "f">>, <<".", "e", "m", "b">>,
      <<"a", ".", "e", "m", "b">>, <<"a", ".", "b", ".", "P", "e", "s">>,
      <<"a">> }

\* File contents: a well-formed EMB1 buffer of two stitches, the same cut in
\* the middle of its second pair, and bytes of another format.
Contents ==
    { EncodeEmb(EMB_MAGIC, 2, << <<10, 20>>, <<-5, 15>> >>),
      SubSeq(EncodeEmb(EMB_MAGIC, 2, << <<10, 20>>, <<-5, 15>> >>), 1, 14),
      <<35, 76, 65>> }

Messages == [file_name : FileNames, content : Contents, from_user : BOOLEAN]

Init ==
    /\ EmbIdle
    /\ ExportIdle
    /\ PreviewIdle
    /\ pc = "idle"
    /\ registry \in Registries
    /\ message = [file_name |-> <<>>, content |-> <<>>, from_user |-> FALSE]
    /\ handled = 0
    /\ HandlerLocals

\* Line 194-195: the transport hands the next document to handle_document;
\* the handler's locals are fresh.
ReceiveDocument ==
    /\ pc \in {"idle", "done"}
    /\ handled < MaxRequests
    /\ message' \in Messages
    /\ handled' = handled + 1
    /\ pc' = "reply_processing"
    /\ file_extension' = <<>>
    /\ api_calls' = <<>>
    /\ downloaded' = FALSE
    /\ temp_file' = [exists |-> FALSE, saved |-> FALSE]
    /\ user_name_bound' = FALSE
    /\ relay' = [original |-> "none", zip |-> "none"]
    /\ process_called' = FALSE
    /\ temp_dir' = NoTempDir
    /\ pattern' = None
    /\ exported_files' = <<>>
    /\ zip_buffer' = NoZip
    /\ exc' = "none"
    /\ escaped' = FALSE
    /\ UNCHANGED registry
    /\ UNCHANGED <<embVars, expVars, pvVars>>

Next ==
    \/ ReceiveDocument
    \/ ReplyProcessing
    \/ GetFile
    \/ CheckExtension
    \/ Download
    \/ SaveUpload
    \/ RelayOriginal
    \/ ProcMkdtemp
    \/ ProcRead
    \/ ProcBranch
    \/ ProcExport
    \/ ProcPreview
    \/ ProcZip
    \/ ProcExit
    \/ SendArchive
    \/ DeleteNotice
    \/ RelayZip
    \/ EditCouldNotProcess
    \/ Finally
    \/ Except

Spec == Init /\ [][Next]_vars

\* The extension of the uploaded file's name, lowered, with its dot.
UploadExtension == lower(splitext(message.file_name)[2])

\* The error reply was made, and named step as the failure.
ErrorReplied(step) ==
    \E i \in 1..Len(api_calls) :
       api_calls[i].what = "error" /\ api_calls[i].detail = step

\* C1: a relay to the group that fails is only logged. Once the handler has
\* come to the first relay, process_embroidery_file is called whatever the
\* relays do; the archive, or the could-not-process text, is sent to the user
\* as the processing alone decides; and an error reply is sent only for a
\* step other than a relay that raised.
C1_RelayFailureOnlyLogged ==
    (pc = "done" /\ relay.original # "none") =>
        /\ process_called
        /\ zip_buffer.made => Called("archive")
        /\ (~zip_buffer.made /\ exc = "none") => Delivered("could_not_process")
        /\ exc \notin {"relay_original", "relay_zip"}
        /\ Called("error") <=> exc # "none"
        /\ (relay.zip = "failed" /\ exc = "none") => Delivered("archive")

\* The handler has returned after both sends to the group raised: the user
\* has the archive and no error reply.
C1_Witness ==
    /\ pc = "done"
    /\ message.from_user
    /\ relay = [original |-> "failed", zip |-> "failed"]
    /\ process_called
    /\ Delivered("archive")
    /\ ~Called("error")

\* C2: once the upload was saved to its temporary file, the handler ends
\* with the saved upload removed and the output directory of
\* process_embroidery_file, with all that is in it, removed.
C2_NoTempArtifactLeft ==
    (pc = "done" /\ temp_file.saved) =>
        /\ ~temp_file.exists
        /\ temp_dir = NoTempDir

\* The handler has returned after files were exported and the preview
\* raised: the directory and the upload are gone.
C2_Witness ==
    /\ pc = "done"
    /\ temp_file.saved
    /\ exc = "preview"
    /\ Len(exported_files) >= 1
    /\ ~temp_file.exists
    /\ temp_dir = NoTempDir

\* C3: a document whose extension is not in the allow-list is rejected
\* before any processing: never downloaded, no temporary file or directory,
\* nothing relayed, process_embroidery_file never called, and the rejection
\* message is sent to the user.
C3_UnsupportedRejected ==
    (pc = "done" /\ UploadExtension \notin supported_extensions) =>
        /\ ~downloaded
        /\ ~temp_file.exists
        /\ temp_dir = NoTempDir
        /\ relay = [original |-> "none", zip |-> "none"]
        /\ ~process_called
        /\ Called("rejection")

\* What holds of C3: nothing is downloaded, stored, relayed or processed for
\* an extension that is not allowed.
UnsupportedNeverProcessed ==
    (pc # "idle" /\ UploadExtension \notin supported_extensions) =>
        /\ ~downloaded
        /\ ~temp_file.exists
        /\ temp_dir = NoTempDir
        /\ relay = [original |-> "none", zip |-> "none"]
        /\ ~process_called

\* C4: an exception of any step other than a relay is caught at the top
\* level, the user is sent the error message naming the failure, and the
\* handler returns without raising.
C4_UnexpectedFailureReported ==
    (pc = "done" /\ exc # "none") =>
        /\ ErrorReplied(exc)
        /\ ~escaped

\* What holds of C4: the error reply is attempted for every exception that
\* reaches the top level, and the next document is then taken.
ErrorReplyAttempted ==
    (pc = "done" /\ exc # "none") => ErrorReplied(exc)

\* C7: the files the export stage produces for an upload of extension e
\* hold no file of extension e.
C7_NoSelfExport ==
    \A i \in 1..Len(exported_files) :
       <<".">> \o FileExt(exported_files[i]) # UploadExtension

====
